---- MODULE Spec2Model ----
(***************************************************************************)
(* Banner service (src/main.py, src/src/banners.py): the store of banners, *)
(* tags and banner<->tag association rows, the two token verifications and *)
(* the five endpoints.  Every endpoint is one action: the verification     *)
(* dependency first, then the handler body with its commit.                *)
(***************************************************************************)
EXTENDS Integers, Sequences, FiniteSets, TLC

\* ---------------------------------------------------------------- bounds
MaxBannerId == 2
MaxTagList == 2
MaxTime == 1
MaxSessions == 2

\* ------------------------------------------------------- input value sets
FeatureIds == {1, 2}
TagIds == {1, 2}
Contents == {"c1", "c2"}

\* Optional values (Python's `x | None`): <<>> is None, <<v>> is the value v.
NoneV == <<>>
Some(v) == <<v>>
IsNone(o) == o = <<>>
Val(o) == o[1]
Opt(S) == {NoneV} \cup {Some(v) : v \in S}

\* tag_ids: list[int], duplicates allowed.
TagLists == UNION {[1..n -> TagIds] : n \in 0..MaxTagList}
Range(s) == {s[i] : i \in DOMAIN s}

\* The users table: read-only for the endpoints.
Users == {[token |-> "admin_token", admin |-> TRUE],
          [token |-> "test_token", admin |-> FALSE]}
Tokens == Opt({"admin_token", "test_token", "wrong_token"})

Limits == Opt({1})
Offsets == {0, 2}

HTTP_200_OK == 200
HTTP_201_CREATED == 201
HTTP_204_NO_CONTENT == 204
HTTP_401_UNAUTHORIZED == 401
HTTP_403_FORBIDDEN == 403
HTTP_404_NOT_FOUND == 404

VARIABLES
    tags,         \* table tags: the set of tag_id
    banners,      \* table banners: banner_id -> row
    banner_tags,  \* table banner_tags: banner_id -> its rows' tag_id, in row order
    now,          \* the wall clock read by datetime.now()
    request,      \* the last request handled
    response,     \* the response to it
    sessions,     \* the requests in flight, each between two awaits of its handler
    issued        \* history: the banner_id values given to created banners so far

vars == <<tags, banners, banner_tags, now, request, response, sessions, issued>>

\* ------------------------------------------------------------ verification
\* user_token_verification: 401 without a token or without a user of that token.
user_token_verification(token) ==
    IF IsNone(token) THEN HTTP_401_UNAUTHORIZED
    ELSE IF {u \in Users : u.token = Val(token)} = {} THEN HTTP_401_UNAUTHORIZED
    ELSE HTTP_200_OK

\* A verification that forgets the admin flag: every existing user passes.
admin_token_verification_NoRole(token) ==
    IF IsNone(token) THEN HTTP_401_UNAUTHORIZED
    ELSE IF {u \in Users : u.token = Val(token)} = {} THEN HTTP_401_UNAUTHORIZED
    ELSE HTTP_200_OK

\* admin_token_verification: as above, then 403 when the user is no admin.
admin_token_verification(token) ==
    IF IsNone(token) THEN HTTP_401_UNAUTHORIZED
    ELSE IF {u \in Users : u.token = Val(token)} = {} THEN HTTP_401_UNAUTHORIZED
    ELSE IF \E u \in Users : u.token = Val(token) /\ ~u.admin THEN HTTP_403_FORBIDDEN
    ELSE HTTP_200_OK

\* A rejection that comes after the handler's get-or-create loop has run.
Rejected_AfterTags(op, token, code) ==
    /\ request' = [op |-> op, token |-> token]
    /\ response' = [status |-> code, kind |-> "error", body |-> code]
    /\ \E tag_ids \in TagLists : tags' = tags \cup Range(tag_ids)
    /\ UNCHANGED <<banners, banner_tags, now, sessions, issued>>

\* HTTPException raised by a dependency: no handler runs, nothing is written.
Rejected(op, token, code) ==
    /\ request' = [op |-> op, token |-> token]
    /\ response' = [status |-> code, kind |-> "error", body |-> code]
    /\ UNCHANGED <<tags, banners, banner_tags, now, sessions, issued>>

\* ------------------------------------------------------------------ store
Max(S) == CHOOSE m \in S : \A x \in S : x <= m

\* banner_id: integer primary key, autoincrement=True.
NewBannerId == IF DOMAIN banners = {} THEN 1 ELSE Max(DOMAIN banners) + 1

\* Banner.get_as_dict
get_as_dict(b) ==
    [banner_id |-> b,
     tag_ids |-> banner_tags[b],
     feature_id |-> banners[b].feature_id,
     content |-> banners[b].content,
     is_active |-> banners[b].is_active,
     created_at |-> banners[b].created_at,
     updated_at |-> banners[b].updated_at]

\* The rows of select(Banner).join(Banner.tags): one per association row.
\* A row <<b, i>> is banner b with the i-th association row of b, whose tag is in tags.
RowTag(r) == banner_tags[r[1]][r[2]]
JoinRows == {r \in UNION {{<<b, i>> : i \in DOMAIN banner_tags[b]} :
                              b \in DOMAIN banners \cap DOMAIN banner_tags} :
                RowTag(r) \in tags}

\* A query without ORDER BY returns its rows in an order the store chooses.
Orderings(S) == {s \in [1..Cardinality(S) -> S] : \A i, j \in DOMAIN s : s[i] = s[j] => i = j}

\* results[offset:offset + limit] of a Python list (0-based, end excluded,
\* a negative index counts from the end, out-of-range indices are clamped).
SliceIndex(i, n) == IF i < 0 THEN (IF i + n < 0 THEN 0 ELSE i + n)
                    ELSE (IF i > n THEN n ELSE i)
PySlice(s, lo, hi) == SubSeq(s, SliceIndex(lo, Len(s)) + 1, SliceIndex(hi, Len(s)))

\* The resolve query without its is_active condition, and without its feature_id
\* condition.
ResolveRows_NoActive(feature_id, tag_id) ==
    {r \in JoinRows : /\ banners[r[1]].feature_id = feature_id
                      /\ RowTag(r) = tag_id}
ResolveRows_NoFeature(feature_id, tag_id) ==
    {r \in JoinRows : /\ RowTag(r) = tag_id
                      /\ banners[r[1]].is_active}

\* where(Banner.feature_id == feature_id & Tag.tag_id == tag_id & Banner.is_active)
ResolveRows(feature_id, tag_id) ==
    {r \in JoinRows : /\ banners[r[1]].feature_id = feature_id
                      /\ RowTag(r) = tag_id
                      /\ banners[r[1]].is_active}

\* where((feature_id given => equal) & (tag_id given => equal))
ListRows(feature_id, tag_id) ==
    {r \in JoinRows : /\ IsNone(feature_id) \/ banners[r[1]].feature_id = Val(feature_id)
                      /\ IsNone(tag_id) \/ RowTag(r) = Val(tag_id)}

\* The get-or-create loop over tag_ids: every id of the list is in the table after it.
EnsureTags(tag_ids) == tags \cup Range(tag_ids)

\* banner.tags of a new Banner after the loop appended one Tag per element of tag_ids.
AppendedTags(tag_ids) == tag_ids

\* A patch that forgets banner.tags = []: the supplied ids are added to the old ones.
PatchedTags_Delta(old, tag_ids) == old \o tag_ids

\* banner.tags = [] and then the same loop: the old rows go, one row per element comes.
PatchedTags(old, tag_ids) == <<>> \o tag_ids

\* The requests in flight at once, and a slot with no request in it.
Sessions == 1..MaxSessions
NoSession == [pc |-> "idle"]

NoRequest == [op |-> "none", token |-> NoneV]
NoResponse == [status |-> 0, kind |-> "none", body |-> 0]
Idle == request = NoRequest

Init ==
    /\ tags = {}
    /\ banners = <<>>
    /\ banner_tags = <<>>
    /\ now = 0
    /\ request = NoRequest
    /\ response = NoResponse
    /\ sessions = [s \in Sessions |-> NoSession]
    /\ issued = {}

\* The client has read the response; the next request can be sent.
Receive ==
    /\ ~Idle
    /\ request' = NoRequest
    /\ response' = NoResponse
    /\ UNCHANGED <<tags, banners, banner_tags, now, sessions, issued>>

\* Time passes between requests.
Tick ==
    /\ Idle
    /\ now < MaxTime
    /\ now' = now + 1
    /\ UNCHANGED <<tags, banners, banner_tags, request, response, sessions, issued>>

\* GET /user_banner
user_banner ==
    /\ Idle
    /\ \E token \in Tokens :
        LET code == user_token_verification(token) IN
        IF code # HTTP_200_OK THEN Rejected("user_banner", token, code)
        ELSE \E tag_id \in TagIds, feature_id \in FeatureIds, use_last_revision \in BOOLEAN :
            /\ request' = [op |-> "user_banner", token |-> token,
                           tag_id |-> tag_id, feature_id |-> feature_id]
            /\ UNCHANGED <<tags, banners, banner_tags, now, sessions, issued>>
            /\ IF tag_id \notin tags
               THEN response' = [status |-> HTTP_404_NOT_FOUND, kind |-> "error",
                                 body |-> HTTP_404_NOT_FOUND]
               ELSE \E results \in Orderings(ResolveRows(feature_id, tag_id)) :
                        IF Len(results) < 1
                        THEN response' = [status |-> HTTP_404_NOT_FOUND, kind |-> "error",
                                          body |-> HTTP_404_NOT_FOUND]
                        ELSE response' = [status |-> HTTP_200_OK, kind |-> "content",
                                          body |-> banners[results[1][1]].content]

\* GET /banner
get_banners ==
    /\ Idle
    /\ \E token \in Tokens :
        LET code == admin_token_verification(token) IN
        IF code # HTTP_200_OK THEN Rejected("get_banners", token, code)
        ELSE \E feature_id \in Opt(FeatureIds), tag_id \in Opt(TagIds),
                limit \in Limits, offset \in Offsets :
            /\ request' = [op |-> "get_banners", token |-> token, feature_id |-> feature_id,
                           tag_id |-> tag_id, limit |-> limit, offset |-> offset]
            /\ UNCHANGED <<tags, banners, banner_tags, now, sessions, issued>>
            /\ IF ~IsNone(tag_id) /\ Val(tag_id) \notin tags
               THEN response' = [status |-> HTTP_200_OK, kind |-> "list", body |-> <<>>]
               ELSE \E results \in Orderings(ListRows(feature_id, tag_id)) :
                        LET sliced == IF ~IsNone(limit)
                                      THEN PySlice(results, offset, offset + Val(limit))
                                      ELSE results
                        IN response' = [status |-> HTTP_200_OK, kind |-> "list",
                                        body |-> [i \in 1..Len(sliced) |-> get_as_dict(sliced[i][1])]]

\* POST /banner
post_banner ==
    /\ Idle
    /\ \E token \in Tokens :
        LET code == admin_token_verification(token) IN
        IF code # HTTP_200_OK THEN Rejected("post_banner", token, code)
        ELSE \E tag_ids \in TagLists, feature_id \in FeatureIds,
                content \in Contents, is_active \in BOOLEAN :
            /\ NewBannerId <= MaxBannerId
            /\ \E updated \in {t \in {now, now + 1} : t <= MaxTime} :
                /\ banners' = (NewBannerId :> [feature_id |-> feature_id, content |-> content,
                                               is_active |-> is_active, created_at |-> now,
                                               updated_at |-> updated]) @@ banners
                /\ now' = updated
            /\ banner_tags' = (NewBannerId :> AppendedTags(tag_ids)) @@ banner_tags
            /\ tags' = EnsureTags(tag_ids)
            /\ request' = [op |-> "post_banner", token |-> token, tag_ids |-> tag_ids,
                           feature_id |-> feature_id, content |-> content,
                           is_active |-> is_active]
            /\ response' = [status |-> HTTP_201_CREATED, kind |-> "created",
                            body |-> NewBannerId]
            /\ issued' = issued \cup {NewBannerId}
            /\ UNCHANGED sessions

BannerIds == 1..MaxBannerId

\* A patch that tests is_active by truth instead of `is not None`: False is never
\* assigned.
PatchedRow_Truthy(row, feature_id, content, is_active, updated_at) ==
    [feature_id |-> IF ~IsNone(feature_id) THEN Val(feature_id) ELSE row.feature_id,
     content |-> IF ~IsNone(content) THEN Val(content) ELSE row.content,
     is_active |-> IF ~IsNone(is_active) /\ Val(is_active) THEN TRUE ELSE row.is_active,
     created_at |-> row.created_at,
     updated_at |-> updated_at]

\* A patch that forgets banner.updated_at = datetime.now().
PatchedRow_StaleTime(row, feature_id, content, is_active, updated_at) ==
    [feature_id |-> IF ~IsNone(feature_id) THEN Val(feature_id) ELSE row.feature_id,
     content |-> IF ~IsNone(content) THEN Val(content) ELSE row.content,
     is_active |-> IF ~IsNone(is_active) THEN Val(is_active) ELSE row.is_active,
     created_at |-> row.created_at,
     updated_at |-> row.updated_at]

\* The scalar fields of a patched row: a field of the body that is not None is
\* assigned, and updated_at is the clock reading of the patch.
PatchedRow(row, feature_id, content, is_active, updated_at) ==
    [feature_id |-> IF ~IsNone(feature_id) THEN Val(feature_id) ELSE row.feature_id,
     content |-> IF ~IsNone(content) THEN Val(content) ELSE row.content,
     is_active |-> IF ~IsNone(is_active) THEN Val(is_active) ELSE row.is_active,
     created_at |-> row.created_at,
     updated_at |-> updated_at]

\* A patch that runs its get-or-create loop before it looks for the banner.
patch_banner_TagsFirst ==
    /\ Idle
    /\ \E token \in Tokens :
        LET code == admin_token_verification(token) IN
        IF code # HTTP_200_OK THEN Rejected("patch_banner", token, code)
        ELSE \E banner_id \in BannerIds, tag_ids \in Opt(TagLists), feature_id \in Opt(FeatureIds),
                content \in Opt(Contents), is_active \in Opt(BOOLEAN) :
            /\ request' = [op |-> "patch_banner", token |-> token, banner_id |-> banner_id,
                           tag_ids |-> tag_ids, feature_id |-> feature_id,
                           content |-> content, is_active |-> is_active]
            /\ UNCHANGED <<now, sessions, issued>>
            /\ tags' = IF IsNone(tag_ids) THEN tags ELSE EnsureTags(Val(tag_ids))
            /\ IF banner_id \notin DOMAIN banners
               THEN /\ response' = [status |-> HTTP_404_NOT_FOUND, kind |-> "error",
                                    body |-> HTTP_404_NOT_FOUND]
                    /\ UNCHANGED <<banners, banner_tags>>
               ELSE /\ banner_tags' = IF IsNone(tag_ids) THEN banner_tags
                                      ELSE [banner_tags EXCEPT ![banner_id] =
                                               PatchedTags(@, Val(tag_ids))]
                    /\ banners' = [banners EXCEPT ![banner_id] =
                                       PatchedRow(@, feature_id, content, is_active, now)]
                    /\ response' = [status |-> HTTP_200_OK, kind |-> "empty", body |-> 0]

\* PATCH /banner/{banner_id}
patch_banner ==
    /\ Idle
    /\ \E token \in Tokens :
        LET code == admin_token_verification(token) IN
        IF code # HTTP_200_OK THEN Rejected("patch_banner", token, code)
        ELSE \E banner_id \in BannerIds, tag_ids \in Opt(TagLists), feature_id \in Opt(FeatureIds),
                content \in Opt(Contents), is_active \in Opt(BOOLEAN) :
            /\ request' = [op |-> "patch_banner", token |-> token, banner_id |-> banner_id,
                           tag_ids |-> tag_ids, feature_id |-> feature_id,
                           content |-> content, is_active |-> is_active]
            /\ UNCHANGED <<now, sessions, issued>>
            /\ IF banner_id \notin DOMAIN banners
               THEN /\ response' = [status |-> HTTP_404_NOT_FOUND, kind |-> "error",
                                    body |-> HTTP_404_NOT_FOUND]
                    /\ UNCHANGED <<tags, banners, banner_tags>>
               ELSE /\ IF ~IsNone(tag_ids)
                       THEN /\ banner_tags' = [banner_tags EXCEPT ![banner_id] = PatchedTags(@, Val(tag_ids))]
                            /\ tags' = EnsureTags(Val(tag_ids))
                       ELSE UNCHANGED <<tags, banner_tags>>
                    /\ banners' = [banners EXCEPT ![banner_id] =
                                       PatchedRow(@, feature_id, content, is_active, now)]
                    /\ response' = [status |-> HTTP_200_OK, kind |-> "empty", body |-> 0]

\* What delete_banner answers when session.get finds no banner.
DeleteMissing == [status |-> HTTP_200_OK, kind |-> "int", body |-> HTTP_404_NOT_FOUND]

\* session.delete(banner) also deletes the association rows of the banner: a delete
\* that leaves them behind, and the rows of the table after the delete.
DeletedRows_Kept(banner_id) == banner_tags
DeletedRows(banner_id) == [b \in DOMAIN banner_tags \ {banner_id} |-> banner_tags[b]]

\* The relationship has no cascade to Tag: a delete that cascades to the tags of the
\* banner, and the tags table after the delete.
TagsAfterDelete_Cascade(banner_id) == tags \ Range(banner_tags[banner_id])
TagsAfterDelete(banner_id) == tags

\* DELETE /banner/{banner_id}
delete_banner ==
    /\ Idle
    /\ \E token \in Tokens :
        LET code == admin_token_verification(token) IN
        IF code # HTTP_200_OK THEN Rejected("delete_banner", token, code)
        ELSE \E banner_id \in BannerIds :
            /\ request' = [op |-> "delete_banner", token |-> token, banner_id |-> banner_id]
            /\ UNCHANGED <<now, sessions, issued>>
            /\ IF banner_id \in DOMAIN banners
               THEN /\ banners' = [b \in DOMAIN banners \ {banner_id} |-> banners[b]]
                    /\ banner_tags' = DeletedRows(banner_id)
                    /\ tags' = TagsAfterDelete(banner_id)
                    /\ response' = [status |-> HTTP_204_NO_CONTENT, kind |-> "empty", body |-> 0]
               ELSE /\ UNCHANGED <<tags, banners, banner_tags>>
                    /\ response' = DeleteMissing

\* ------------------------------------------- requests in flight at once
\* create and patch, one step per await of the handler: the request starts (the
\* verification, the Banner built or read), each session.get(Tag, tag_id) of the
\* loop, and the flush and commit.  A session sees the committed tables and its own
\* pending objects; its writes reach the tables at its commit.
HTTP_500_INTERNAL_SERVER_ERROR == 500

InFlightTagLists == {l \in TagLists : Cardinality(Range(l)) = Len(l)}
InFlightPostBodies ==
    [tag_ids : InFlightTagLists, feature_id : {1}, content : {"c1"}, is_active : {TRUE}]
InFlightPatchBodies ==
    [tag_ids : Opt(InFlightTagLists), feature_id : {NoneV}, content : {Some("c2")},
     is_active : {NoneV}]

Running(s) == sessions[s].pc \in {"tags", "commit"}
PendingPosts == {s \in Sessions : Running(s) /\ sessions[s].op = "post_banner"}

\* After the synchronous code that follows an await: the loop goes on, or it is over
\* (patch then reads the clock for updated_at) and the commit is next.
AfterAwait(sn) ==
    IF ~IsNone(sn.body.tag_ids) /\ sn.i <= Len(Val(sn.body.tag_ids))
    THEN [sn EXCEPT !.pc = "tags"]
    ELSE [sn EXCEPT !.pc = "commit",
                    !.updated_at = IF sn.op = "patch_banner" THEN now ELSE @]

\* The request is answered; the session is over.
Answered(op, code) == [pc |-> "done", op |-> op, status |-> code]

StartRejected(s, op, token, code) ==
    /\ sessions' = [sessions EXCEPT ![s] = Answered(op, code)]
    /\ UNCHANGED <<tags, banners, banner_tags, now, request, response, issued>>

\* post_banner up to its first await: the Banner is built with two clock readings.
start_post_banner(s) ==
    /\ sessions[s].pc = "idle"
    /\ \E token \in Tokens :
        LET code == admin_token_verification(token) IN
        IF code # HTTP_200_OK THEN StartRejected(s, "post_banner", token, code)
        ELSE
            /\ Cardinality(DOMAIN banners) + Cardinality(PendingPosts) < MaxBannerId
            /\ \E body \in InFlightPostBodies, updated \in {t \in {now, now + 1} : t <= MaxTime} :
                /\ sessions' = [sessions EXCEPT ![s] = AfterAwait(
                       [pc |-> "tags", op |-> "post_banner", banner_id |-> 0,
                        body |-> [body EXCEPT !.tag_ids = Some(body.tag_ids)],
                        i |-> 1, added |-> {}, created_at |-> now, updated_at |-> updated])]
                /\ now' = updated
            /\ UNCHANGED <<tags, banners, banner_tags, request, response, issued>>

\* patch_banner up to its first await after session.get(Banner, banner_id).
start_patch_banner(s) ==
    /\ sessions[s].pc = "idle"
    /\ \E token \in Tokens :
        LET code == admin_token_verification(token) IN
        IF code # HTTP_200_OK THEN StartRejected(s, "patch_banner", token, code)
        ELSE \E banner_id \in BannerIds, body \in InFlightPatchBodies :
            /\ IF banner_id \notin DOMAIN banners
               THEN sessions' = [sessions EXCEPT ![s] =
                        Answered("patch_banner", HTTP_404_NOT_FOUND)]
               ELSE sessions' = [sessions EXCEPT ![s] = AfterAwait(
                        [pc |-> "tags", op |-> "patch_banner", banner_id |-> banner_id,
                         body |-> body, i |-> 1, added |-> {},
                         created_at |-> 0, updated_at |-> 0])]
            /\ UNCHANGED <<tags, banners, banner_tags, now, request, response, issued>>

\* tag = await session.get(Tag, tag_id); a tag that is not found is added to the session.
get_tag(s) ==
    /\ sessions[s].pc = "tags"
    /\ LET sn == sessions[s]
           tag_id == Val(sn.body.tag_ids)[sn.i]
           found == tag_id \in tags \/ tag_id \in sn.added
       IN sessions' = [sessions EXCEPT ![s] = AfterAwait(
              [sn EXCEPT !.i = @ + 1,
                         !.added = IF found THEN @ ELSE @ \cup {tag_id}])]
    /\ UNCHANGED <<tags, banners, banner_tags, now, request, response, issued>>

\* The INSERT of a pending tag whose tag_id another request has committed meanwhile
\* violates the primary key of tags: the flush raises and nothing is written.
DuplicateKey(sn) == sn.added \cap tags # {}

\* ------------------------------------------------ readers in flight at once
\* The full records of the banners in tables bs and bt (Banner.get_as_dict of each).
RecordsOf(bs, bt) ==
    {[banner_id |-> b, tag_ids |-> bt[b], feature_id |-> bs[b].feature_id,
      content |-> bs[b].content, is_active |-> bs[b].is_active,
      created_at |-> bs[b].created_at, updated_at |-> bs[b].updated_at] : b \in DOMAIN bs}

\* A reader between its two statements.  Two of its fields are history that no code
\* reads: before, the banner records at its first statement, and commits, how many
\* commits of other requests it has overlapped since (0, 1, or 2 for more).
Reading(sn) == sn.pc \in {"query", "load"}
Overlapped(sn) ==
    IF Reading(sn) THEN [sn EXCEPT !.commits = IF @ < 2 THEN @ + 1 ELSE @] ELSE sn

\* The sessions after session s has committed and is answered.
AfterCommit(s, answer) ==
    [t \in Sessions |-> IF t = s THEN answer ELSE Overlapped(sessions[t])]

\* await session.flush() / await session.commit()
commit(s) ==
    /\ sessions[s].pc = "commit"
    /\ LET sn == sessions[s] IN
       IF DuplicateKey(sn) \/ (sn.op = "patch_banner" /\ sn.banner_id \notin DOMAIN banners)
       THEN /\ sessions' = [sessions EXCEPT ![s] =
                    Answered(sn.op, HTTP_500_INTERNAL_SERVER_ERROR)]
            /\ UNCHANGED <<tags, banners, banner_tags, issued>>
       ELSE /\ tags' = tags \cup sn.added
            /\ IF sn.op = "post_banner"
               THEN /\ banners' = (NewBannerId :> [feature_id |-> sn.body.feature_id,
                                                   content |-> sn.body.content,
                                                   is_active |-> sn.body.is_active,
                                                   created_at |-> sn.created_at,
                                                   updated_at |-> sn.updated_at]) @@ banners
                    /\ banner_tags' = (NewBannerId :> AppendedTags(Val(sn.body.tag_ids)))
                                          @@ banner_tags
                    /\ issued' = issued \cup {NewBannerId}
                    /\ sessions' = AfterCommit(s, Answered(sn.op, HTTP_201_CREATED))
               ELSE /\ banners' = [banners EXCEPT ![sn.banner_id] =
                           PatchedRow(@, sn.body.feature_id, sn.body.content,
                                      sn.body.is_active, sn.updated_at)]
                    /\ banner_tags' = IF IsNone(sn.body.tag_ids) THEN banner_tags
                                      ELSE [banner_tags EXCEPT ![sn.banner_id] =
                                               PatchedTags(@, Val(sn.body.tag_ids))]
                    /\ UNCHANGED issued
                    /\ sessions' = AfterCommit(s, Answered(sn.op, HTTP_200_OK))
    /\ UNCHANGED <<now, request, response>>

\* What a reader has answered: the status and the body.
ReaderAnswered(sn, code, body) ==
    [pc |-> "done", op |-> sn.op, status |-> code, body |-> body]

\* user_banner up to its second await: the verification and session.get(Tag, tag_id).
start_user_banner(s) ==
    /\ sessions[s].pc = "idle"
    /\ \E token \in Tokens :
        LET code == user_token_verification(token) IN
        IF code # HTTP_200_OK THEN StartRejected(s, "user_banner", token, code)
        ELSE \E tag_id \in TagIds :
            /\ IF tag_id \notin tags
               THEN sessions' = [sessions EXCEPT ![s] =
                        Answered("user_banner", HTTP_404_NOT_FOUND)]
               ELSE sessions' = [sessions EXCEPT ![s] =
                        [pc |-> "query", op |-> "user_banner", feature_id |-> 1,
                         tag_id |-> tag_id, before |-> RecordsOf(banners, banner_tags),
                         commits |-> 0]]
            /\ UNCHANGED <<tags, banners, banner_tags, now, request, response, issued>>

\* The join query of user_banner, one statement, and the answer from its first row.
query_user_banner(s) ==
    /\ sessions[s].pc = "query"
    /\ LET sn == sessions[s] IN
       \E results \in Orderings(ResolveRows(sn.feature_id, sn.tag_id)) :
           sessions' = [sessions EXCEPT ![s] =
               IF Len(results) < 1 THEN Answered("user_banner", HTTP_404_NOT_FOUND)
               ELSE ReaderAnswered(sn, HTTP_200_OK, banners[results[1][1]].content)]
    /\ UNCHANGED <<tags, banners, banner_tags, now, request, response, issued>>

\* get_banners up to the rows of its join query: the Banner entities hold the scalar
\* columns read by this statement; their tags are not loaded yet.
start_get_banners(s) ==
    /\ sessions[s].pc = "idle"
    /\ \E token \in Tokens :
        LET code == admin_token_verification(token) IN
        IF code # HTTP_200_OK THEN StartRejected(s, "get_banners", token, code)
        ELSE \E limit \in Limits \ {NoneV} :
            /\ sessions' = [sessions EXCEPT ![s] =
                   [pc |-> "load", op |-> "get_banners", feature_id |-> NoneV,
                    tag_id |-> NoneV, limit |-> limit, offset |-> 0,
                    results |-> ListRows(NoneV, NoneV),
                    rows |-> [b \in {r[1] : r \in ListRows(NoneV, NoneV)} |-> banners[b]],
                    before |-> RecordsOf(banners, banner_tags), commits |-> 0]]
            /\ UNCHANGED <<tags, banners, banner_tags, now, request, response, issued>>

\* lazy="selectin": a second statement loads the tags of the banners just read, as
\* the tables are now; then the slice and get_as_dict of each entity.
load_tags(s) ==
    /\ sessions[s].pc = "load"
    /\ LET sn == sessions[s]
           loaded == [b \in DOMAIN sn.rows |->
                         IF b \in DOMAIN banner_tags THEN banner_tags[b] ELSE <<>>]
       IN \E results \in Orderings(sn.results) :
           LET sliced == IF ~IsNone(sn.limit)
                         THEN PySlice(results, sn.offset, sn.offset + Val(sn.limit))
                         ELSE results
               entity(b) == [banner_id |-> b, tag_ids |-> loaded[b],
                             feature_id |-> sn.rows[b].feature_id,
                             content |-> sn.rows[b].content,
                             is_active |-> sn.rows[b].is_active,
                             created_at |-> sn.rows[b].created_at,
                             updated_at |-> sn.rows[b].updated_at]
           IN sessions' = [sessions EXCEPT ![s] = ReaderAnswered(sn, HTTP_200_OK,
                  [i \in 1..Len(sliced) |-> entity(sliced[i][1])])]
    /\ UNCHANGED <<tags, banners, banner_tags, now, request, response, issued>>

\* The client has read the response of the request.
receive(s) ==
    /\ sessions[s].pc = "done"
    /\ sessions' = [sessions EXCEPT ![s] = NoSession]
    /\ UNCHANGED <<tags, banners, banner_tags, now, request, response, issued>>

NextInFlight ==
    \E s \in Sessions :
        \/ start_post_banner(s)
        \/ start_patch_banner(s)
        \/ get_tag(s)
        \/ commit(s)
        \/ receive(s)

SpecInFlight == Init /\ [][NextInFlight]_vars

\* One session creates and patches banners while another resolves and lists them.
Writer == 1
Reader == MaxSessions
NextReaders ==
    \/ start_post_banner(Writer)
    \/ start_patch_banner(Writer)
    \/ get_tag(Writer)
    \/ commit(Writer)
    \/ receive(Writer)
    \/ start_user_banner(Reader)
    \/ query_user_banner(Reader)
    \/ start_get_banners(Reader)
    \/ load_tags(Reader)
    \/ receive(Reader)

SpecReaders == Init /\ [][NextReaders]_vars

Next ==
    \/ Tick
    \/ Receive
    \/ user_banner
    \/ get_banners
    \/ post_banner
    \/ patch_banner
    \/ delete_banner

Spec == Init /\ [][Next]_vars

\* ------------------------------------------------------------ properties
\* The caller's token is the token of a user / of an admin / of a user that is no admin.
ExistingUser(token) == ~IsNone(token) /\ \E u \in Users : u.token = Val(token)
AdminUser(token) == ~IsNone(token) /\ \E u \in Users : u.token = Val(token) /\ u.admin
PlainUser(token) == ~IsNone(token) /\ \E u \in Users : u.token = Val(token) /\ ~u.admin
AdminOps == {"get_banners", "post_banner", "patch_banner", "delete_banner"}

\* The handler ran: the request carries the handler's arguments.
Handled == DOMAIN request # DOMAIN NoRequest

\* A banner's tag set, and the stored banners that are active, of the feature and
\* associated with the tag.
TagSet(b) == Range(banner_tags[b])
MatchingActive(feature_id, tag_id) ==
    {b \in DOMAIN banners : /\ banners[b].is_active
                            /\ banners[b].feature_id = feature_id
                            /\ tag_id \in TagSet(b)}
Min(S) == CHOOSE m \in S : \A x \in S : m <= x

\* C1: when exactly one stored banner is active, has the requested feature_id and has
\* the requested tag_id in its tag set, resolve by an existing user answers 200 with
\* exactly that banner's content.
C1_ResolveUniqueMatch ==
    (request.op = "user_banner" /\ ExistingUser(request.token)) =>
        /\ Handled
        /\ LET m == MatchingActive(request.feature_id, request.tag_id) IN
           Cardinality(m) = 1 =>
               /\ response.status = HTTP_200_OK
               /\ response.kind = "content"
               /\ \A b \in m : response.body = banners[b].content

\* C1 witness: two banners of the feature and tag with different contents, one of
\* them inactive, and resolve answered 200.
C1_Witness ==
    /\ request.op = "user_banner" /\ Handled
    /\ Cardinality(MatchingActive(request.feature_id, request.tag_id)) = 1
    /\ \E a \in DOMAIN banners, b \in DOMAIN banners :
           /\ banners[a].is_active /\ ~banners[b].is_active
           /\ banners[a].feature_id = request.feature_id
           /\ banners[b].feature_id = request.feature_id
           /\ request.tag_id \in TagSet(a) \cap TagSet(b)
           /\ banners[a].content # banners[b].content
    /\ response.status = HTTP_200_OK

\* C2: resolve by an existing user answers 404 whenever the tag is not in the tag
\* table and whenever no stored banner is at once active, of the feature and
\* associated with the tag; a 200 always carries the content of such a banner.
C2_ResolveNotFound ==
    (request.op = "user_banner" /\ ExistingUser(request.token)) =>
        /\ Handled
        /\ LET m == MatchingActive(request.feature_id, request.tag_id) IN
           /\ (request.tag_id \notin tags \/ m = {}) =>
                  /\ response.status = HTTP_404_NOT_FOUND
                  /\ response.kind = "error"
           /\ response.status = HTTP_200_OK =>
                  \E b \in m : response.body = banners[b].content

\* C2 witness: the tag is known and a banner of the feature has it, but the banner
\* is inactive, and resolve answered 404.
C2_Witness ==
    /\ request.op = "user_banner" /\ Handled
    /\ request.tag_id \in tags
    /\ \E b \in DOMAIN banners : /\ ~banners[b].is_active
                                  /\ banners[b].feature_id = request.feature_id
                                  /\ request.tag_id \in TagSet(b)
    /\ response.status = HTTP_404_NOT_FOUND

\* C3: no token or a token of no user is answered 401 on every endpoint; the token of
\* a user that is no admin is answered 403 on list, create, patch and delete; resolve
\* accepts every existing user, and the four others every admin.
C3_Authorization ==
    request.op # "none" =>
        /\ ~ExistingUser(request.token) => response.status = HTTP_401_UNAUTHORIZED
        /\ (request.op \in AdminOps /\ PlainUser(request.token)) =>
               response.status = HTTP_403_FORBIDDEN
        /\ (request.op = "user_banner" /\ ExistingUser(request.token)) =>
               (Handled /\ response.status \notin {HTTP_401_UNAUTHORIZED, HTTP_403_FORBIDDEN})
        /\ (request.op \in AdminOps /\ AdminUser(request.token)) =>
               (Handled /\ response.status \notin {HTTP_401_UNAUTHORIZED, HTTP_403_FORBIDDEN})

\* C3 witness: a create with the token of a user that is no admin was answered 403
\* while banners are stored.
C3_Witness ==
    /\ request.op = "post_banner"
    /\ PlainUser(request.token)
    /\ response.status = HTTP_403_FORBIDDEN
    /\ DOMAIN banners # {}

\* The stored banners a list with these predicates is to return, and the banner
\* identifiers of the records in a list response.
ExpectedList(feature_id, tag_id) ==
    {b \in DOMAIN banners : /\ IsNone(feature_id) \/ banners[b].feature_id = Val(feature_id)
                            /\ IsNone(tag_id) \/ Val(tag_id) \in TagSet(b)}
BodyIds == {response.body[i].banner_id : i \in DOMAIN response.body}

\* C4 (as claimed): a list by an admin, without limit, returns exactly the stored
\* banners that satisfy the supplied predicates, a banner with zero tags included;
\* an unknown tag_id gives the empty list.
C4_ListReturnsMatching ==
    (request.op = "get_banners" /\ AdminUser(request.token) /\ Handled /\ IsNone(request.limit)) =>
        /\ response.status = HTTP_200_OK
        /\ response.kind = "list"
        /\ BodyIds = ExpectedList(request.feature_id, request.tag_id)

\* The step is a successful patch of banner request'.banner_id.
PatchDone ==
    /\ request'.op = "patch_banner"
    /\ DOMAIN request' # DOMAIN NoRequest
    /\ response'.status = HTTP_200_OK

\* C5: a successful patch leaves every field that is absent from the body as it was
\* and gives every present field the supplied value; banner_id and created_at stay,
\* updated_at becomes the time of the patch, and no other banner changes.
C5_PatchFrame ==
    [][PatchDone =>
        LET a == request'
            id == request'.banner_id
        IN /\ id \in DOMAIN banners
           /\ DOMAIN banners' = DOMAIN banners
           /\ DOMAIN banner_tags' = DOMAIN banner_tags
           /\ banners'[id].feature_id =
                  IF IsNone(a.feature_id) THEN banners[id].feature_id ELSE Val(a.feature_id)
           /\ banners'[id].content =
                  IF IsNone(a.content) THEN banners[id].content ELSE Val(a.content)
           /\ banners'[id].is_active =
                  IF IsNone(a.is_active) THEN banners[id].is_active ELSE Val(a.is_active)
           /\ IF IsNone(a.tag_ids)
              THEN banner_tags'[id] = banner_tags[id]
              ELSE Range(banner_tags'[id]) = Range(Val(a.tag_ids))
           /\ banners'[id].created_at = banners[id].created_at
           /\ banners'[id].updated_at = now'
           /\ \A b \in DOMAIN banners \ {id} :
                  banners'[b] = banners[b] /\ banner_tags'[b] = banner_tags[b]
    ]_vars

\* C5 witness: a patch with only content in its body succeeded on a banner created
\* earlier than the patch, next to another banner.
C5_Witness ==
    /\ request.op = "patch_banner" /\ Handled
    /\ response.status = HTTP_200_OK
    /\ IsNone(request.feature_id) /\ IsNone(request.is_active) /\ IsNone(request.tag_ids)
    /\ ~IsNone(request.content)
    /\ request.banner_id \in DOMAIN banners
    /\ banners[request.banner_id].content = Val(request.content)
    /\ banners[request.banner_id].created_at < banners[request.banner_id].updated_at
    /\ ~banners[request.banner_id].is_active
    /\ banner_tags[request.banner_id] # <<>>
    /\ DOMAIN banners # {request.banner_id}

\* C6: a successful patch with tag_ids in its body makes the banner's tag set exactly
\* the supplied ids: a tag it had that is not supplied is gone, every supplied id is
\* in it and in the tag table, and an empty list leaves zero tags.
C6_PatchReplacesTags ==
    [][(PatchDone /\ ~IsNone(request'.tag_ids)) =>
        LET id == request'.banner_id
            new == Range(Val(request'.tag_ids))
        IN /\ id \in DOMAIN banner_tags /\ id \in DOMAIN banner_tags'
           /\ \A t \in Range(banner_tags[id]) \ new : t \notin Range(banner_tags'[id])
           /\ \A t \in new : t \in Range(banner_tags'[id]) /\ t \in tags'
           /\ Range(banner_tags'[id]) = new
           /\ Val(request'.tag_ids) = <<>> => banner_tags'[id] = <<>>
    ]_vars

\* C6 witness: a patch with one tag id succeeded on the only banner stored, the
\* banner has exactly that tag, and the tag table holds another tag that no banner
\* has any more.
C6_Witness ==
    /\ request.op = "patch_banner" /\ Handled
    /\ response.status = HTTP_200_OK
    /\ ~IsNone(request.tag_ids)
    /\ Len(Val(request.tag_ids)) = 1
    /\ DOMAIN banners = {request.banner_id}
    /\ TagSet(request.banner_id) = Range(Val(request.tag_ids))
    /\ tags \ TagSet(request.banner_id) # {}

\* C7 (as claimed): a delete by an admin of a stored banner answers 204 and removes
\* it; a delete of a banner_id that is not stored answers with HTTP status 404.
C7_DeleteStatus ==
    [][(request'.op = "delete_banner" /\ AdminUser(request'.token)) =>
        /\ DOMAIN request' # DOMAIN NoRequest
        /\ IF request'.banner_id \in DOMAIN banners
           THEN /\ response'.status = HTTP_204_NO_CONTENT
                /\ request'.banner_id \notin DOMAIN banners'
           ELSE response'.status = HTTP_404_NOT_FOUND
    ]_vars

\* The records of a sequence of join rows.
Records(rows) == [i \in 1..Len(rows) |-> get_as_dict(rows[i][1])]

\* C8 (as claimed): the list answers the elements at positions offset .. offset+limit-1
\* of the filtered sequence; without limit it answers the whole filtered sequence; an
\* offset at or beyond the number of filtered banners gives the empty sequence.
C8_ListSlice ==
    (/\ request.op = "get_banners" /\ AdminUser(request.token) /\ Handled
     /\ IsNone(request.tag_id) \/ Val(request.tag_id) \in tags) =>
        LET rows == ListRows(request.feature_id, request.tag_id)
            n == Cardinality(rows)
            O == request.offset
        IN /\ response.status = HTTP_200_OK
           /\ response.kind = "list"
           /\ ~IsNone(request.limit) =>
                  \E s \in Orderings(rows) :
                      response.body = Records(SubSeq(s, O + 1,
                          IF O + Val(request.limit) < n THEN O + Val(request.limit) ELSE n))
           /\ IsNone(request.limit) =>
                  \E s \in Orderings(rows) : response.body = Records(s)
           /\ O >= n => response.body = <<>>

\* C9 (as claimed): a resolve answered 200 carries the content of the matching
\* active banner with the lowest banner identifier.
C9_ResolveLowestId ==
    (request.op = "user_banner" /\ Handled /\ response.status = HTTP_200_OK) =>
        LET m == MatchingActive(request.feature_id, request.tag_id) IN
           /\ m # {}
           /\ response.body = banners[Min(m)].content

\* C10 (as claimed): when requests in flight at once name a tag that is not in the
\* tag table and each has seen it absent, every one of them succeeds: none is
\* answered with a storage error.
C10_EnsureToleratesRace ==
    \A s \in Sessions :
        (sessions[s].pc = "done" /\ sessions[s].op \in {"post_banner", "patch_banner"}) =>
            sessions[s].status # HTTP_500_INTERNAL_SERVER_ERROR

\* C11 (as claimed): a resolve or a list that overlaps the commit of one patch sees
\* every banner either as it was before the patch or as it is after it: each record
\* of the list answer is a complete banner record of the state at the reader's first
\* statement or of the state at its answer, and the content of a resolve answer is
\* the content of a banner that in one of these two states was active, of the feature
\* and associated with the tag.
C11_PatchSeenAtomically ==
    [][\A s \in Sessions :
        (/\ Reading(sessions[s]) /\ sessions[s].commits <= 1
         /\ sessions'[s].pc = "done" /\ sessions'[s].status = HTTP_200_OK) =>
            LET complete == sessions[s].before \cup RecordsOf(banners, banner_tags) IN
            /\ sessions[s].op = "get_banners" =>
                   \A i \in DOMAIN sessions'[s].body : sessions'[s].body[i] \in complete
            /\ sessions[s].op = "user_banner" =>
                   \E r \in complete :
                       /\ r.content = sessions'[s].body
                       /\ r.is_active
                       /\ r.feature_id = sessions[s].feature_id
                       /\ sessions[s].tag_id \in Range(r.tag_ids)
    ]_vars

\* C12: no step removes a tag from the tag table: after a delete of a banner, and
\* after a patch that takes a tag off a banner, every tag that was in the table is
\* still in it, also when no banner has it any more.
C12_TagsOnlyGrow == [][tags \subseteq tags']_vars

\* C12 witness: a delete answered 204 has removed the only banner stored, and the tag
\* table still holds two tags that no banner has.
C12_Witness ==
    /\ request.op = "delete_banner" /\ Handled
    /\ response.status = HTTP_204_NO_CONTENT
    /\ DOMAIN banners = {}
    /\ Cardinality(tags) = 2

\* C13: every association row is a row of a stored banner and names a tag of the
\* tag table.
C13_AssociationsRefer ==
    /\ DOMAIN banner_tags \subseteq DOMAIN banners
    /\ \A b \in DOMAIN banner_tags : \A i \in DOMAIN banner_tags[b] : banner_tags[b][i] \in tags

\* C13 witness: a banner with two association rows has been deleted next to another
\* banner that keeps its rows.
C13_Witness ==
    /\ request.op = "delete_banner" /\ Handled
    /\ response.status = HTTP_204_NO_CONTENT
    /\ request.banner_id \notin DOMAIN banner_tags
    /\ Cardinality(tags) = 2
    /\ \E b \in DOMAIN banners : Len(banner_tags[b]) = 1

\* The step is a successful create.
PostDone ==
    /\ request'.op = "post_banner"
    /\ response'.status = HTTP_201_CREATED

\* C14 (as claimed): after a successful create, and after a successful patch with
\* tag_ids in its body, the banner has one association row for each distinct id of
\* the list and no more, each id is in the tag table, and a create by an admin
\* succeeds also when its list repeats an id.
C14_TagSetDistinct ==
    [][/\ (request'.op = "post_banner" /\ AdminUser(request'.token)) => PostDone
       /\ (PostDone \/ (PatchDone /\ ~IsNone(request'.tag_ids))) =>
            LET id == IF PostDone THEN response'.body ELSE request'.banner_id
                l == IF PostDone THEN request'.tag_ids ELSE Val(request'.tag_ids)
            IN /\ Range(banner_tags'[id]) = Range(l)
               /\ Len(banner_tags'[id]) = Cardinality(Range(l))
               /\ Range(l) \subseteq tags'
    ]_vars

\* C15: every stored banner has updated_at >= created_at, and a successful patch
\* sets the banner's updated_at to the time of the patch, which is not earlier than
\* the updated_at it had.
C15_UpdatedAt ==
    /\ [](\A b \in DOMAIN banners : banners[b].updated_at >= banners[b].created_at)
    /\ [][PatchDone =>
            /\ banners'[request'.banner_id].updated_at = now'
            /\ banners'[request'.banner_id].updated_at >= banners[request'.banner_id].updated_at
         ]_vars

\* C15 witness: a patch succeeded on a banner later than the banner was created and
\* last updated, next to a banner that nothing has patched since its creation.
C15_Witness ==
    /\ request.op = "patch_banner" /\ Handled
    /\ response.status = HTTP_200_OK
    /\ request.banner_id \in DOMAIN banners
    /\ banners[request.banner_id].created_at = 0
    /\ banners[request.banner_id].updated_at = now
    /\ now > 0
    /\ \E b \in DOMAIN banners \ {request.banner_id} :
           banners[b].updated_at = banners[b].created_at

\* C16 (as claimed): a create never returns a banner_id that an earlier create has
\* returned, also after the banner that had it is deleted.
C16_IdsNeverReused ==
    [][PostDone => response'.body \notin issued]_vars

\* C17: a request answered 401 or 403 leaves the banners, the tag table and the
\* association rows as they were, whatever the endpoint.
C17_RejectedLeavesStore ==
    [][(request'.op # "none"
            /\ response'.status \in {HTTP_401_UNAUTHORIZED, HTTP_403_FORBIDDEN}) =>
        UNCHANGED <<tags, banners, banner_tags>>
    ]_vars

\* C17 witness: a patch without a token was answered 401 while a banner is stored
\* and some tag id is not in the tag table.
C17_Witness ==
    /\ request.op = "patch_banner"
    /\ IsNone(request.token)
    /\ response.status = HTTP_401_UNAUTHORIZED
    /\ DOMAIN banners # {}
    /\ TagIds \ tags # {}

\* C18: a patch by an admin of a banner_id that is not stored is answered 404 and
\* leaves the banners, the association rows and the tag table as they were.
C18_PatchMissing ==
    [][(/\ request'.op = "patch_banner" /\ AdminUser(request'.token)
        /\ DOMAIN request' # DOMAIN NoRequest
        /\ request'.banner_id \notin DOMAIN banners) =>
            /\ response'.status = HTTP_404_NOT_FOUND
            /\ UNCHANGED <<tags, banners, banner_tags>>
    ]_vars

\* C18 witness: a patch naming a tag id that is not in the tag table was answered
\* 404 for a banner_id that is not stored, while another banner is stored.
C18_Witness ==
    /\ request.op = "patch_banner" /\ Handled
    /\ response.status = HTTP_404_NOT_FOUND
    /\ request.banner_id \notin DOMAIN banners
    /\ DOMAIN banners # {}
    /\ ~IsNone(request.tag_ids)
    /\ Range(Val(request.tag_ids)) \ tags # {}

\* How many records of a list response are records of banner b.
Occurrences(b) == Cardinality({i \in DOMAIN response.body : response.body[i].banner_id = b})

\* C19 (as claimed): a list without limit holds each stored banner that has a tag and
\* satisfies the supplied predicates exactly once, and no other banner; with
\* limit = L it holds L distinct banners whenever at least offset + L such banners
\* match.  (A banner without tags is the matter of C4 and a banner with two rows of
\* one tag that of C14: the statement is about the stores without either.)
C19_ListEachOnce ==
    (/\ request.op = "get_banners" /\ Handled
     /\ \A b \in DOMAIN banners : Len(banner_tags[b]) = Cardinality(TagSet(b))) =>
        LET m == {b \in ExpectedList(request.feature_id, request.tag_id) :
                     banner_tags[b] # <<>>}
        IN /\ IsNone(request.limit) =>
                  /\ BodyIds = m
                  /\ \A b \in m : Occurrences(b) = 1
           /\ (~IsNone(request.limit)
                  /\ Cardinality(m) >= request.offset + Val(request.limit)) =>
                  /\ Len(response.body) = Val(request.limit)
                  /\ Cardinality(BodyIds) = Val(request.limit)
====
